---- MODULE Spec2Model ----
(***************************************************************************)
(* Model of TrafficSignalOptimizer (src/traffic_optimizer.py) and of the   *)
(* request loop of the Streamlit front end (src/camera_problems.py).       *)
(*                                                                         *)
(* Numbers.  The optimizer computes in IEEE-754 doubles.  All weights are  *)
(* multiples of 0.5, so densities are kept exactly as integers in units of *)
(* half a PCU: a weight of 1.0 is 2, saturation_flow 30.0 is 60.  Every    *)
(* quotient is kept as an exact numerator/denominator pair.  The double    *)
(* result of a quotient differs from the exact one by a relative error of  *)
(* about 1e-16, which changes int() or round() only where the exact value  *)
(* sits exactly on the boundary (an integer for int(), a half for round()).*)
(* At those points, and only there, the outcome is taken from the record   *)
(* fp, the rounding the floating-point unit produced in that call:         *)
(*   fp.cycle_down   int(optimal_cycle) came out one below the exact       *)
(*                   integer quotient (29/(1-2/3) gives 86.99999999999999);*)
(*   fp.green_up[i]  round(raw_green) of lane i, an exact tie, went up;    *)
(*   fp.ysign        the sign of the double Y (differs from the sign of    *)
(*                   the exact sum only when terms of both signs cancel).  *)
(***************************************************************************)
EXTENDS Integers, Sequences, FiniteSets, TLC

VARIABLES
    self,         \* the optimizer instance: its attributes (__init__)
    lane_counts,  \* the request: lane_counts[i] is the by_class dict of lane LaneNames[i]
    pc,           \* "collect": request being assembled, "ready": resubmitted, "done": call returned
    results,      \* the dict returned by the last optimize_signals call, or NoResult
    outcome,      \* "none", "returned" or "raised" (an exception left optimize_signals)
    fp,           \* floating-point rounding of the last call (see above)
    ref           \* an earlier call the caller kept: [counts, results, fp, other], or
                  \* NoRef; other: a call with a different input was made since

vars == <<self, lane_counts, pc, results, outcome, fp, ref>>

(***************************************************************************)
(* Bounds of the explored inputs.                                          *)
(***************************************************************************)
MaxCount     == 2    \* Spec: vehicles of one category in one lane
MaxCars      == 10   \* SpecPair: cars in one lane
MaxCallCars  == 5    \* SpecCalls: cars in one lane
MaxCallLanes == 2    \* SpecCalls: lanes in one request

LaneNames == <<"North", "South", "East", "West">>
Categories == {"car", "motorcycle", "bus", "truck"}
Unknown == "bicycle"      \* a category outside the weight table

Min(a, b) == IF a <= b THEN a ELSE b
Max(a, b) == IF a >= b THEN a ELSE b
Sgn(x) == IF x > 0 THEN 1 ELSE IF x < 0 THEN -1 ELSE 0

NoResult == [none |-> TRUE]
NoRef == [none |-> TRUE]
NoFp == [ysign |-> 0, cycle_down |-> FALSE, green_up |-> <<>>]

\* Stand-in for the magnitude of y / Y when Y is a cancellation residue
\* (about 1e-17): the real value is of the order of 1e15 or more.
Huge == 10^6

(***************************************************************************)
(* __init__: weights and saturation_flow in half-PCU units.                *)
(***************************************************************************)
TrafficSignalOptimizer ==
    [ weights |-> [car |-> 2, motorcycle |-> 1, bus |-> 6, truck |-> 5],
      default_weight |-> 2,
      saturation_flow |-> 60,
      lost_time_per_phase |-> 4,
      min_green_time |-> 10,
      min_cycle_time |-> 60,
      max_cycle_time |-> 150 ]

\* self.weights.get(vehicle_type, 1.0)
weight(slf, vehicle_type) ==
    IF vehicle_type \in DOMAIN slf.weights
    THEN slf.weights[vehicle_type]
    ELSE slf.default_weight

\* calculate_traffic_density: sum of count * weight over the dict's items
calculate_traffic_density(slf, counts) ==
    LET RECURSIVE acc(_)
        acc(ks) == IF ks = {} THEN 0
                   ELSE LET k == CHOOSE x \in ks : TRUE
                        IN counts[k] * weight(slf, k) + acc(ks \ {k})
    IN acc(DOMAIN counts)

\* pcu_count of every lane (lane_data[lane]['pcu'])
lane_pcu(slf, lc) == [i \in 1..Len(lc) |-> calculate_traffic_density(slf, lc[i])]

RECURSIVE SeqSum(_)
SeqSum(s) == IF Len(s) = 0 THEN 0 ELSE s[1] + SeqSum(Tail(s))

\* Y = sum of y = pcu / saturation_flow: the numerator over saturation_flow
Y_num(slf, lc) == SeqSum(lane_pcu(slf, lc))

\* The signs the double Y can have: the exact one, unless terms of both
\* signs cancel exactly, where the rounding residue decides.
YSigns(slf, lc) ==
    LET p == lane_pcu(slf, lc)
        mixed == (\E i \in DOMAIN p : p[i] > 0) /\ (\E i \in DOMAIN p : p[i] < 0)
    IN IF mixed /\ Y_num(slf, lc) = 0 THEN {-1, 0, 1} ELSE {Sgn(Y_num(slf, lc))}

\* L = self.lost_time_per_phase * 4
L(slf) == slf.lost_time_per_phase * 4

\* faulty variant: the stability clamp is left out (Y_clamped = Y)
Y_clamped_unclamped(slf, ynum) == 20 * ynum

\* Y_clamped = min(Y, 0.95), as a numerator over 20 * saturation_flow
Y_clamped(slf, ynum) == Min(20 * ynum, 19 * slf.saturation_flow)

\* optimal_cycle = (1.5 * L + 5) / (1 - Y_clamped) as numerator and denominator
optimal_cycle_num(slf) == (3 * L(slf) + 10) * 10 * slf.saturation_flow
optimal_cycle_den(slf, ynum) == 20 * slf.saturation_flow - Y_clamped(slf, ynum)

\* int(x) of the quotient n / d: truncation toward zero
Trunc(n, d) ==
    LET an == IF n < 0 THEN -n ELSE n
        ad == IF d < 0 THEN -d ELSE d
        q  == an \div ad
    IN IF Sgn(n) * Sgn(d) < 0 THEN -q ELSE q

\* ZeroDivisionError in "pcu_count / self.saturation_flow" or in the
\* optimal_cycle quotient
Raises(slf, lc, ysign) ==
    \/ Len(lc) > 0 /\ slf.saturation_flow = 0
    \/ ysign > 0 /\ optimal_cycle_den(slf, Y_num(slf, lc)) = 0

\* the optimal_cycle quotient is an exact integer: int() of the double may
\* come out one lower
CycleKnife(slf, ynum, ysign) ==
    /\ ysign > 0
    /\ optimal_cycle_den(slf, ynum) > 0
    /\ optimal_cycle_num(slf) % optimal_cycle_den(slf, ynum) = 0

\* int(optimal_cycle), by the branch "if Y_clamped > 0"
int_optimal_cycle(slf, ynum, ysign, cycle_down) ==
    IF ysign > 0
    THEN Trunc(optimal_cycle_num(slf), optimal_cycle_den(slf, ynum))
         - (IF cycle_down THEN 1 ELSE 0)
    ELSE slf.min_cycle_time

\* faulty variant: an optimum above max_cycle_time falls back to min_cycle_time
cycle_time_reset(slf, ynum, ysign, cycle_down) ==
    IF int_optimal_cycle(slf, ynum, ysign, cycle_down) > slf.max_cycle_time
    THEN slf.min_cycle_time
    ELSE Max(slf.min_cycle_time, int_optimal_cycle(slf, ynum, ysign, cycle_down))

\* faulty variant: the lower clamp is left out
cycle_time_nomin(slf, ynum, ysign, cycle_down) ==
    Min(slf.max_cycle_time, int_optimal_cycle(slf, ynum, ysign, cycle_down))

\* cycle_time = max(min_cycle_time, min(max_cycle_time, int(optimal_cycle)))
cycle_time(slf, ynum, ysign, cycle_down) ==
    Max(slf.min_cycle_time,
        Min(slf.max_cycle_time, int_optimal_cycle(slf, ynum, ysign, cycle_down)))

\* faulty variant: the lost time is not taken off the budget
total_effective_green_nolost(slf, ct) == ct

\* total_effective_green = cycle_time - L
total_effective_green(slf, ct) == ct - L(slf)

\* raw_green as numerator and denominator, by the branch "if Y > 0":
\* (y / Y) * total_effective_green, else total_effective_green / 4
raw_green_num(pcu, teg, ysign) == IF ysign > 0 THEN pcu * teg ELSE teg
raw_green_den(ynum, ysign) == IF ysign > 0 THEN ynum ELSE 4

\* n / d (d > 0) lies exactly halfway between two integers
IsTie(n, d) == 2 * (n - (n \div d) * d) = d

\* faulty variant: int() in place of round(): the share is truncated
RoundQuot_floor(n, d, exact, up) == n \div d

\* round() of n / d, d > 0.  A tie of an exactly computed quotient goes to the
\* even neighbour (Python 3); a tie of an inexact one goes where the double fell.
RoundQuot(n, d, exact, up) ==
    LET lo == n \div d
        r2 == 2 * (n - lo * d)
    IN IF r2 < d THEN lo
       ELSE IF r2 > d THEN lo + 1
       ELSE IF exact THEN (IF lo % 2 = 0 THEN lo ELSE lo + 1)
       ELSE IF up THEN lo + 1 ELSE lo

\* the double raw_green is decided by rounding error
GreenKnife(pcu, ynum, teg, ysign) ==
    /\ ysign > 0
    /\ ynum > 0
    /\ IsTie(raw_green_num(pcu, teg, ysign), raw_green_den(ynum, ysign))

\* int(round(raw_green))
round_raw_green(pcu, ynum, teg, ysign, up) ==
    IF ysign > 0 /\ ynum <= 0
    THEN Sgn(raw_green_num(pcu, teg, ysign)) * Huge
    ELSE RoundQuot(raw_green_num(pcu, teg, ysign), raw_green_den(ynum, ysign),
                   ysign <= 0, up)

\* faulty variant: the minimum green is not enforced
green_time_nofloor(slf, pcu, ynum, teg, ysign, up) ==
    round_raw_green(pcu, ynum, teg, ysign, up)

\* green_time = max(self.min_green_time, int(round(raw_green)))
green_time(slf, pcu, ynum, teg, ysign, up) ==
    Max(slf.min_green_time, round_raw_green(pcu, ynum, teg, ysign, up))

\* red_time = cycle_time - green_time - self.lost_time_per_phase
red_time(slf, ct, green) == ct - green - slf.lost_time_per_phase

\* round(y, 3) in thousandths
flow_ratio(slf, pcu) == RoundQuot(1000 * pcu, slf.saturation_flow, TRUE, FALSE)

\* results['lanes'][lane]
lane_result(slf, pcu, ct, green) ==
    [ green_time |-> green,
      red_time |-> red_time(slf, ct, green),
      yellow_time |-> slf.lost_time_per_phase,
      density_score |-> pcu,
      flow_ratio |-> flow_ratio(slf, pcu) ]

\* results['actual_cycle_time'] = allocated_green_sum + L
actual_cycle_time(slf, greens) == SeqSum(greens) + L(slf)

\* the dict optimize_signals returns; saturation_degree is Y as
\* <<numerator, denominator>>
optimize_signals(slf, lc, f) ==
    LET p    == lane_pcu(slf, lc)
        ynum == SeqSum(p)
        ct   == cycle_time(slf, ynum, f.ysign, f.cycle_down)
        teg  == total_effective_green(slf, ct)
        g    == [i \in 1..Len(lc) |->
                   green_time(slf, p[i], ynum, teg, f.ysign, f.green_up[i])]
    IN [ cycle_time |-> ct,
         lanes |-> [i \in 1..Len(lc) |-> lane_result(slf, p[i], ct, g[i])],
         saturation_degree |-> <<ynum, slf.saturation_flow>>,
         actual_cycle_time |-> actual_cycle_time(slf, g) ]

\* faulty variant: the call writes the lane count into the instance's floor
self_after_call_drift(slf, lc) ==
    [slf EXCEPT !.min_green_time = Max(slf.min_green_time, 10 + Len(lc))]

\* optimize_signals assigns no attribute of self
self_after_call(slf, lc) == slf

\* The roundings the floating-point unit can produce for one call; FALSE
\* wherever the exact value decides.
FpChoices(slf, lc) ==
    LET p    == lane_pcu(slf, lc)
        ynum == SeqSum(p)
        n    == Len(lc)
        Ups(ys, cd) ==
            LET teg == total_effective_green(slf, cycle_time(slf, ynum, ys, cd))
                tie == [i \in 1..n |-> GreenKnife(p[i], ynum, teg, ys)]
            IN IF \A i \in 1..n : ~tie[i]
               THEN {[i \in 1..n |-> FALSE]}
               ELSE {gu \in [1..n -> BOOLEAN] : \A i \in 1..n : gu[i] => tie[i]}
        Of(ys) ==
            IF Raises(slf, lc, ys)
            THEN {[ysign |-> ys, cycle_down |-> FALSE, green_up |-> [i \in 1..n |-> FALSE]]}
            ELSE UNION { { [ysign |-> ys, cycle_down |-> cd, green_up |-> gu] :
                             gu \in Ups(ys, cd) } :
                         cd \in IF CycleKnife(slf, ynum, ys) THEN BOOLEAN ELSE {FALSE} }
    IN UNION { Of(ys) : ys \in YSigns(slf, lc) }

(***************************************************************************)
(* Observations (by_class dicts) the specifications draw from.             *)
(***************************************************************************)
EmptyObs == [c \in {} |-> 0]
OneKind(c, n) == [k \in {c} |-> n]
AllKinds(n) == [k \in Categories |-> n]

ObsGeneral ==
    {EmptyObs, OneKind("car", 0), OneKind("car", -1)}
    \cup {OneKind(c, n) : c \in Categories \cup {Unknown}, n \in 1..MaxCount}
    \cup {AllKinds(n) : n \in 1..MaxCount}
ObsCars == {OneKind("car", n) : n \in 0..MaxCars}
ObsCalls == {OneKind("car", n) : n \in 0..MaxCallCars}

(***************************************************************************)
(* Operations.                                                             *)
(***************************************************************************)
Init ==
    /\ self = TrafficSignalOptimizer
    /\ lane_counts = <<>>
    /\ pc = "collect"
    /\ results = NoResult
    /\ outcome = "none"
    /\ fp = NoFp
    /\ ref = NoRef

\* lane_counts[lane] = counts['by_class'], lanes in the order of LaneNames
Collect(obs, limit) ==
    /\ pc = "collect"
    /\ Len(lane_counts) < limit
    /\ lane_counts' = Append(lane_counts, obs)
    /\ UNCHANGED <<self, pc, results, outcome, fp, ref>>

\* optimization_results = optimizer.optimize_signals(lane_counts)
Optimize ==
    /\ pc \in {"collect", "ready"}
    /\ \E f \in FpChoices(self, lane_counts) :
          /\ fp' = f
          /\ IF Raises(self, lane_counts, f.ysign)
             THEN outcome' = "raised" /\ results' = NoResult
             ELSE outcome' = "returned"
                  /\ results' = optimize_signals(self, lane_counts, f)
    /\ self' = self_after_call(self, lane_counts)
    /\ pc' = "done"
    /\ ref' = IF ref # NoRef /\ ref.counts # lane_counts
              THEN [ref EXCEPT !.other = TRUE]
              ELSE ref
    /\ UNCHANGED lane_counts

\* the button is pressed again: lane_counts = {}
Clear ==
    /\ pc = "done"
    /\ pc' = "collect"
    /\ lane_counts' = <<>>
    /\ results' = NoResult
    /\ outcome' = "none"
    /\ fp' = NoFp
    /\ UNCHANGED <<self, ref>>

\* as Clear, and the caller drops the call it kept
ClearAll ==
    /\ pc = "done"
    /\ pc' = "collect"
    /\ lane_counts' = <<>>
    /\ results' = NoResult
    /\ outcome' = "none"
    /\ fp' = NoFp
    /\ ref' = NoRef
    /\ UNCHANGED self

\* the caller keeps the call that just returned
Remember ==
    /\ pc = "done"
    /\ outcome = "returned"
    /\ ref = NoRef
    /\ ref' = [counts |-> lane_counts, results |-> results, fp |-> fp, other |-> FALSE]
    /\ UNCHANGED <<self, lane_counts, pc, results, outcome, fp>>

\* the caller keeps the call that just returned and submits the same lanes
\* again with one more car seen in lane i
Recount(i) ==
    /\ pc = "done"
    /\ outcome = "returned"
    /\ i \in 1..Len(lane_counts)
    /\ "car" \in DOMAIN lane_counts[i]
    /\ lane_counts[i]["car"] < MaxCars
    /\ ref' = [counts |-> lane_counts, results |-> results, fp |-> fp, other |-> FALSE]
    /\ lane_counts' = [lane_counts EXCEPT ![i]["car"] = @ + 1]
    /\ pc' = "ready"
    /\ results' = NoResult
    /\ outcome' = "none"
    /\ fp' = NoFp
    /\ UNCHANGED self

Next ==
    \/ \E o \in ObsGeneral : Collect(o, Len(LaneNames))
    \/ Optimize
    \/ Clear

Spec == Init /\ [][Next]_vars

NextPair ==
    \/ \E o \in ObsCars : Collect(o, Len(LaneNames))
    \/ Optimize
    \/ \E i \in 1..Len(LaneNames) : Recount(i)
    \/ ClearAll

SpecPair == Init /\ [][NextPair]_vars

NextCalls ==
    \/ \E o \in ObsCalls : Collect(o, MaxCallLanes)
    \/ Optimize
    \/ Remember
    \/ Clear

SpecCalls == Init /\ [][NextCalls]_vars

(***************************************************************************)
(* Vocabulary of the properties.                                           *)
(***************************************************************************)
Done == pc = "done" /\ outcome = "returned"
N == Len(lane_counts)
NonNeg(lc) == \A i \in 1..Len(lc) : \A k \in DOMAIN lc[i] : lc[i][k] >= 0
AllZero(lc) == \A i \in 1..Len(lc) : \A k \in DOMAIN lc[i] : lc[i][k] = 0
GreenSum(r) == SeqSum([i \in 1..Len(r.lanes) |-> r.lanes[i].green_time])
\* the aggregate flow ratio Y of the request, as a numerator over saturation_flow
Demand == Y_num(self, lane_counts)
\* b has the lanes of a and the same counts, but for one lane with one count larger
OneLaneLarger(a, b) ==
    /\ Len(a) = Len(b)
    /\ \E i \in 1..Len(a) :
          /\ DOMAIN a[i] = DOMAIN b[i]
          /\ \E k \in DOMAIN a[i] :
                /\ b[i][k] > a[i][k]
                /\ \A j \in DOMAIN a[i] \ {k} : b[i][j] = a[i][j]
          /\ \A j \in (1..Len(a)) \ {i} : b[j] = a[j]
GrownLane(a, b) == CHOOSE i \in 1..Len(a) : b[i] # a[i]

(***************************************************************************)
(* C1 (as stated): on a request of four lanes with non-negative counts,    *)
(* actual_cycle_time is the sum of the lanes' green_time plus the total    *)
(* lost time (lost_time_per_phase times the number of lanes) and is at     *)
(* least the nominal cycle_time.                                           *)
(***************************************************************************)
C1_ActualAtLeastNominal ==
    (Done /\ NonNeg(lane_counts) /\ N = 4) =>
        /\ results.actual_cycle_time = GreenSum(results) + self.lost_time_per_phase * N
        /\ results.actual_cycle_time >= results.cycle_time

(***************************************************************************)
(* C1 (amended): on every request with non-negative counts,                *)
(* actual_cycle_time is the sum of the lanes' green_time plus              *)
(* 4 * lost_time_per_phase, and when the demand is positive it is at least *)
(* cycle_time - N/2 for N lanes: rounding each share to the nearest        *)
(* integer can take up to half a second from every lane.                   *)
(***************************************************************************)
C1_ActualWithinRounding ==
    (Done /\ NonNeg(lane_counts)) =>
        /\ results.actual_cycle_time = GreenSum(results) + 4 * self.lost_time_per_phase
        /\ Demand > 0 => 2 * results.actual_cycle_time >= 2 * results.cycle_time - N

C1_Witness ==
    /\ Done /\ NonNeg(lane_counts) /\ N = 4 /\ Demand > 0
    /\ results.actual_cycle_time < results.cycle_time

(***************************************************************************)
(* C2 (as stated): for every request of N >= 1 lanes the total lost time L *)
(* is lost_time_per_phase * N, in the cycle formula, in the effective      *)
(* green budget and in actual_cycle_time.                                  *)
(***************************************************************************)
C2_LostTimePerLane ==
    (Done /\ N >= 1) =>
        /\ L(self) = self.lost_time_per_phase * N
        /\ total_effective_green(self, results.cycle_time)
              = results.cycle_time - self.lost_time_per_phase * N
        /\ results.actual_cycle_time - GreenSum(results) = self.lost_time_per_phase * N

(***************************************************************************)
(* C3: on every request of at least one lane with non-negative counts,     *)
(* every lane's green_time is at least min_green_time.                     *)
(***************************************************************************)
C3_MinGreen ==
    (Done /\ NonNeg(lane_counts) /\ N >= 1) =>
        \A i \in 1..N : results.lanes[i].green_time >= self.min_green_time

\* an oversaturated request with a lane of no demand, held at the floor
C3_Witness ==
    /\ Done /\ NonNeg(lane_counts) /\ N >= 2
    /\ Demand >= self.saturation_flow
    /\ \E i \in 1..N : /\ results.lanes[i].density_score = 0
                       /\ results.lanes[i].green_time = self.min_green_time

(***************************************************************************)
(* C4 (as stated): when every count of every lane is zero (or every dict   *)
(* is empty), saturation_degree is 0, cycle_time is min_cycle_time and     *)
(* every green_time is max(min_green_time, round(effectiveGreen / N)) with *)
(* effectiveGreen = cycle_time - lost_time_per_phase * N, for N >= 1 lanes.*)
(***************************************************************************)
C4_ZeroDemandEqualSplit ==
    (Done /\ N >= 1 /\ AllZero(lane_counts)) =>
        /\ results.saturation_degree[1] = 0
        /\ results.cycle_time = self.min_cycle_time
        /\ \A i \in 1..N :
              results.lanes[i].green_time =
                 Max(self.min_green_time,
                     RoundQuot(results.cycle_time - self.lost_time_per_phase * N,
                               N, TRUE, FALSE))

(***************************************************************************)
(* C5: on every request with non-negative counts optimize_signals returns, *)
(* cycle_time lies between min_cycle_time and max_cycle_time, and when the *)
(* aggregate flow ratio Y is at least 1, cycle_time is max_cycle_time and  *)
(* saturation_degree is the unclamped Y (the sum of the lanes' flow        *)
(* ratios, above the 0.95 ceiling).                                        *)
(***************************************************************************)
C5_CycleClamped ==
    (pc = "done" /\ NonNeg(lane_counts)) =>
        /\ outcome = "returned"
        /\ results.cycle_time >= self.min_cycle_time
        /\ results.cycle_time <= self.max_cycle_time
        /\ Demand >= self.saturation_flow =>
              /\ results.cycle_time = self.max_cycle_time
              /\ results.saturation_degree[2] = self.saturation_flow
              /\ results.saturation_degree[1] =
                    SeqSum([i \in 1..N |-> results.lanes[i].density_score])
              /\ results.saturation_degree[1] >= results.saturation_degree[2]

C5_Witness ==
    /\ pc = "done" /\ NonNeg(lane_counts) /\ N >= 1
    /\ Demand > self.saturation_flow
    /\ results.cycle_time = self.max_cycle_time

(***************************************************************************)
(* C6 (as stated): a request with a negative count, or with no lane, is    *)
(* rejected with an error: no timing plan is returned for it.              *)
(***************************************************************************)
C6_InvalidRejected ==
    (pc = "done" /\ (N = 0 \/ ~NonNeg(lane_counts))) =>
        /\ outcome = "raised"
        /\ results = NoResult

(***************************************************************************)
(* C7 (as stated): when a second request has the lanes and counts of an    *)
(* earlier one but for one lane with a larger count, its actual_cycle_time *)
(* is at least the earlier one.                                            *)
(***************************************************************************)
C7_ActualMonotone ==
    (Done /\ ref # NoRef /\ NonNeg(ref.counts) /\ OneLaneLarger(ref.counts, lane_counts)) =>
        results.actual_cycle_time >= ref.results.actual_cycle_time

(***************************************************************************)
(* C7 (amended): under the same condition the nominal cycle_time of the    *)
(* second request is at least the earlier one, and so is the green_time of *)
(* the lane whose count grew.                                              *)
(***************************************************************************)
C7_NominalMonotone ==
    (Done /\ ref # NoRef /\ NonNeg(ref.counts) /\ OneLaneLarger(ref.counts, lane_counts)) =>
        /\ results.cycle_time >= ref.results.cycle_time
        /\ LET i == GrownLane(ref.counts, lane_counts)
           IN results.lanes[i].green_time >= ref.results.lanes[i].green_time

\* a pair where the cycle grows while actual_cycle_time falls
C7_Witness ==
    /\ Done /\ ref # NoRef /\ NonNeg(ref.counts) /\ OneLaneLarger(ref.counts, lane_counts)
    /\ results.cycle_time > ref.results.cycle_time
    /\ results.actual_cycle_time < ref.results.actual_cycle_time

(***************************************************************************)
(* C8: for North={car:10}, South={car:2}, East={car:1}, West={car:1} the   *)
(* densities are 10/2/1/1 PCU, int of the Webster optimum is below 60 so   *)
(* cycle_time = min_cycle_time = 60, the effective green is 44, North's    *)
(* green_time is 31, and the other three are below North's and >= 10.      *)
(***************************************************************************)
Scenario ==
    <<OneKind("car", 10), OneKind("car", 2), OneKind("car", 1), OneKind("car", 1)>>

C8_Scenario ==
    (Done /\ lane_counts = Scenario) =>
        /\ [i \in 1..4 |-> results.lanes[i].density_score] = <<2 * 10, 2 * 2, 2 * 1, 2 * 1>>
        /\ L(self) = 16
        /\ int_optimal_cycle(self, Demand, fp.ysign, fp.cycle_down) < 60
        /\ results.cycle_time = 60
        /\ results.cycle_time = self.min_cycle_time
        /\ total_effective_green(self, results.cycle_time) = 44
        /\ results.lanes[1].green_time = 31
        /\ \A i \in 2..4 : /\ results.lanes[i].green_time < results.lanes[1].green_time
                           /\ results.lanes[i].green_time >= 10

C8_Witness == Done /\ lane_counts = Scenario /\ results.lanes[1].green_time = 31

C10_RedTimePositive ==
    (Done /\ NonNeg(lane_counts) /\ N >= 1) =>
        \A i \in 1..N :
            /\ results.lanes[i].green_time <= results.cycle_time - 16
            /\ results.lanes[i].red_time >= 12

\* a lane that holds all the demand gets the whole budget: red_time is 12
C10_Witness ==
    /\ Done /\ NonNeg(lane_counts) /\ N >= 2
    /\ \E i \in 1..N : /\ results.lanes[i].green_time = results.cycle_time - 16
                       /\ results.lanes[i].red_time = 12

====
